---- MODULE Spec2Model ----
(***************************************************************************)
(* Announcements router of the High School Management System API           *)
(* (src/backend/routers/announcements.py): the four request handlers over  *)
(* the announcements collection, with the teachers collection as the       *)
(* authorization gate.                                                     *)
(*                                                                         *)
(* Text is modelled character by character: a string is a sequence of      *)
(* character codes, so that MongoDB's string comparison of the stored      *)
(* dates and Python's datetime parsing of the same dates are two different *)
(* computations on the same text.  An ISO-8601 timestamp keeps the part of *)
(* the text that varies: one digit for the hour and the zone designator    *)
(* ("Z", "+h" or "-h"); the date prefix common to all timestamps is left   *)
(* out.  An Optional[str] is a sequence of at most one string.             *)
(***************************************************************************)
EXTENDS Integers, Sequences, FiniteSets, TLC

\* ---------------------------------------------------------------- bounds
\* The clock runs over the hours 0..MaxTime.
MaxTime == 2
\* The store generates at most MaxAnnouncements identifiers.
MaxAnnouncements == 2

\* ------------------------------------------------------------ characters
\* The characters the handlers name ("Z", "+00:00"), by code point.
CharPlus == 43
CharZero == 48
CharZ == 90
CharMinus == CharPlus + 2
CharX == CharZ + 30

Digits == CharZero..(CharZero + 9)

\* Optional[str]
None == <<>>
Some(s) == <<s>>

\* ------------------------------------------------- comparison of strings
\* MongoDB compares strings by their characters, left to right; a proper
\* prefix sorts first ($lte / $gte on string fields, sort on created_at).
RECURSIVE StrLess(_, _)
StrLess(a, b) ==
    IF b = <<>> THEN FALSE
    ELSE IF a = <<>> THEN TRUE
    ELSE IF Head(a) # Head(b) THEN Head(a) < Head(b)
    ELSE StrLess(Tail(a), Tail(b))

StrLte(a, b) == a = b \/ StrLess(a, b)
StrGte(a, b) == StrLte(b, a)

\* ------------------------------------------------------------- datetimes
\* datetime.utcnow().isoformat() + "Z"
IsoUtcNow(t) == <<CharZero + t, CharZ>>

\* expiration_date.replace("Z", "+00:00")
RECURSIVE ReplaceZ(_)
ReplaceZ(s) ==
    IF s = <<>> THEN <<>>
    ELSE IF Head(s) = CharZ THEN <<CharPlus, CharZero>> \o ReplaceZ(Tail(s))
    ELSE <<Head(s)>> \o ReplaceZ(Tail(s))

\* datetime.fromisoformat accepts the text <hour><sign><offset>.
IsIsoFormat(s) ==
    /\ Len(s) = 3
    /\ s[1] \in Digits
    /\ s[2] \in {CharPlus, CharMinus}
    /\ s[3] \in Digits

\* The instant (in hours, UTC) of an aware datetime parsed from s.
FromIsoFormat(s) ==
    IF s[2] = CharPlus THEN (s[1] - CharZero) - (s[3] - CharZero)
    ELSE (s[1] - CharZero) + (s[3] - CharZero)

Parseable(s) == IsIsoFormat(ReplaceZ(s))
Instant(s) == FromIsoFormat(ReplaceZ(s))

\* ----------------------------------------------------------- identifiers
\* An ObjectId is a number; str(ObjectId) is its digit, ObjectId(text)
\* raises unless the text is one digit.
ObjectIdStr(oid) == <<CharZero + oid>>
ObjectIdValid(s) == Len(s) = 1 /\ s[1] \in Digits
ObjectIdOf(s) == s[1] - CharZero

\* ------------------------------------------------------- the collections
\* teachers_collection, keyed by username; the router only reads it.
teachers_collection == {"mrodriguez"}

\* What a client may send.
Usernames == teachers_collection \cup {"intruder"}
Messages == {"Exam Friday", "Exam Monday"}
Hours == 1..2
Zoned(h, sign, k) == <<CharZero + h, sign, CharZero + k>>
Garbage == <<CharX>>
\* Every timestamp a client sends here names its zone ("Z" or an offset) and
\* falls on a full hour, as does the clock.
\* expiration_date: "1Z", "2Z" or a text that is no timestamp.
ExpirationDates == {IsoUtcNow(h) : h \in Hours} \cup {Garbage}
\* start_date: left out, empty, "1Z", "2+1" (the instant of "1Z", written in
\* the zone one hour east) or a text that is no timestamp.
StartDates ==
    {None, Some(<<>>), Some(IsoUtcNow(1)), Some(Zoned(2, CharPlus, 1)), Some(Garbage)}
\* The identifiers the store can generate, and a text that is no identifier.
IdTexts == {ObjectIdStr(n) : n \in 1..MaxAnnouncements} \cup {Garbage}

\* The inputs of the runs that interleave the steps of two updates.
FewExpirationDates == {IsoUtcNow(2)}
FewStartDates == {None, Some(IsoUtcNow(1))}
Workers == {"w1", "w2"}

VARIABLES
    announcements_collection,   \* the stored documents, in insertion order
    next_oid,                   \* the next ObjectId the store generates
    now,                        \* the clock, in hours
    pc,                         \* per worker: where its update handler stands
    frame,                      \* per worker: the local variables of that handler
    req,                        \* the request received last: whom it names
    resp                        \* the response of the request that finished last

vars == <<announcements_collection, next_oid, now, pc, frame, req, resp>>

\* A Python value is truthy: "if start_date:" skips None and "".
Truthy(opt) == opt # None /\ opt[1] # <<>>

\* find_one({"_id": obj_id}) on the announcements collection.
Matching(coll, obj_id) == {i \in 1..Len(coll) : coll[i]._id = obj_id}
Exists(coll, obj_id) == Matching(coll, obj_id) # {}
FindOne(coll, obj_id) == coll[CHOOSE i \in Matching(coll, obj_id) : TRUE]

\* serialize_announcement: "_id" leaves the record, "id" = str(_id) enters it.
serialize_announcement(doc) ==
    [id |-> ObjectIdStr(doc._id),
     message |-> doc.message,
     start_date |-> doc.start_date,
     expiration_date |-> doc.expiration_date,
     created_by |-> doc.created_by,
     created_at |-> doc.created_at]

\* The query of get_announcements when active_only is set. A comparison
\* operator of the store matches only values of the operand's type, so
\* $lte never matches a null start_date; {"start_date": None} matches a
\* null or missing field.
ActiveQuery(doc, current_time) ==
    /\ StrGte(doc.expiration_date, current_time)
    /\ \/ doc.start_date = None
       \/ /\ doc.start_date # None
          /\ StrLte(doc.start_date[1], current_time)

Find(coll, active_only, t) ==
    LET Test(doc) == active_only => ActiveQuery(doc, IsoUtcNow(t))
    IN  SelectSeq(coll, Test)

\* .sort("created_at", -1): descending, documents with equal keys keep
\* their stored order.
RECURSIVE InsertDesc(_, _)
InsertDesc(doc, sorted) ==
    IF sorted = <<>> THEN <<doc>>
    ELSE IF StrLte(Head(sorted).created_at, doc.created_at)
         THEN <<doc>> \o sorted
         ELSE <<Head(sorted)>> \o InsertDesc(doc, Tail(sorted))

RECURSIVE SortCreatedAtDesc(_)
SortCreatedAtDesc(docs) ==
    IF docs = <<>> THEN <<>>
    ELSE InsertDesc(Head(docs), SortCreatedAtDesc(Tail(docs)))

\* The body get_announcements returns.
ListBody(coll, active_only, t) ==
    LET found == SortCreatedAtDesc(Find(coll, active_only, t))
    IN  [i \in 1..Len(found) |-> serialize_announcement(found[i])]

\* A response: the operation, the HTTP status, the records of the body, and
\* for the list operation the flag it was asked with.
Response(op, status, body, active_only) ==
    [op |-> op, status |-> status, body |-> body, active_only |-> active_only]

\* The path and query parameters of a request that name the announcement and
\* the teacher (the list operation has neither, create has no identifier).
Request(announcement_id, teacher_username) ==
    [announcement_id |-> announcement_id, teacher_username |-> teacher_username]

NoFrame == [obj_id |-> 0, message |-> "", start_date |-> None, expiration_date |-> <<>>]

Init ==
    /\ announcements_collection = <<>>
    /\ next_oid = 1
    /\ now = 0
    /\ pc = [w \in Workers |-> "idle"]
    /\ frame = [w \in Workers |-> NoFrame]
    /\ req = Request(<<>>, "")
    /\ resp = Response("none", 0, <<>>, FALSE)

\* ------------------------------------------------------------------ list
get_announcements(active_only) ==
    /\ req' = Request(<<>>, "")
    /\ resp' = Response("list", 200,
                        ListBody(announcements_collection, active_only, now), active_only)
    /\ UNCHANGED <<announcements_collection, next_oid, now, pc, frame>>

\* ---------------------------------------------------------------- create
\* Lines 74-85, the date validation of create_announcement: 200 when it
\* passes, 400 for each HTTPException and for the ValueError of a text
\* that does not parse.
CreateDatesStatus(expiration_date, start_date, t) ==
    IF ~Parseable(expiration_date) THEN 400
    ELSE IF Instant(expiration_date) <= t THEN 400
    ELSE IF ~Truthy(start_date) THEN 200
    ELSE IF ~Parseable(start_date[1]) THEN 400
    ELSE IF Instant(start_date[1]) >= Instant(expiration_date) THEN 400
    ELSE 200

\* Lines 69-72: teachers_collection.find_one({"_id": teacher_username}).
Authenticated(teacher_username) == teacher_username \in teachers_collection

CreateStatus(expiration_date, start_date, teacher_username, t) ==
    IF ~Authenticated(teacher_username) THEN 401
    ELSE CreateDatesStatus(expiration_date, start_date, t)

\* Mutant: the parsed form of expiration_date is stored, not the text sent.
NewAnnouncement_Normalised(oid, message, expiration_date, start_date, teacher_username, t) ==
    [_id |-> oid,
     message |-> message,
     start_date |-> start_date,
     expiration_date |-> ReplaceZ(expiration_date),
     created_by |-> teacher_username,
     created_at |-> IsoUtcNow(t)]

\* The document create_announcement inserts.
NewAnnouncement(oid, message, expiration_date, start_date, teacher_username, t) ==
    [_id |-> oid,
     message |-> message,
     start_date |-> start_date,
     expiration_date |-> expiration_date,
     created_by |-> teacher_username,
     created_at |-> IsoUtcNow(t)]

\* Lines 96-100: the record create_announcement returns.
CreatedBody(doc) ==
    [id |-> ObjectIdStr(doc._id),
     message |-> doc.message,
     start_date |-> doc.start_date,
     expiration_date |-> doc.expiration_date,
     created_by |-> doc.created_by,
     created_at |-> doc.created_at]

create_announcement(message, expiration_date, start_date, teacher_username) ==
    LET status == CreateStatus(expiration_date, start_date, teacher_username, now)
        doc == NewAnnouncement(next_oid, message, expiration_date, start_date,
                               teacher_username, now)
    IN  /\ req' = Request(<<>>, teacher_username)
        /\ IF status = 200
           THEN /\ next_oid <= MaxAnnouncements
                /\ announcements_collection' = Append(announcements_collection, doc)
                /\ next_oid' = next_oid + 1
                /\ resp' = Response("create", 200, <<CreatedBody(doc)>>, FALSE)
           ELSE /\ resp' = Response("create", status, <<>>, FALSE)
                /\ UNCHANGED <<announcements_collection, next_oid>>
        /\ UNCHANGED <<now, pc, frame>>

\* ---------------------------------------------------------------- delete
\* Mutant: delete_one with an empty filter removes the first document.
DeleteOne_NoFilter(coll, obj_id) == Tail(coll)

\* delete_one({"_id": obj_id})
DeleteOne(coll, obj_id) ==
    LET Keep(doc) == doc._id # obj_id
    IN  SelectSeq(coll, Keep)

\* Mutant: the identifier is looked at before the credentials.
DeleteStatus_IdFirst(coll, announcement_id, teacher_username) ==
    IF ~ObjectIdValid(announcement_id) THEN 400
    ELSE IF ~Authenticated(teacher_username) THEN 401
    ELSE IF ~Exists(coll, ObjectIdOf(announcement_id)) THEN 404
    ELSE 200

DeleteStatus(coll, announcement_id, teacher_username) ==
    IF ~Authenticated(teacher_username) THEN 401
    ELSE IF ~ObjectIdValid(announcement_id) THEN 400
    ELSE IF ~Exists(coll, ObjectIdOf(announcement_id)) THEN 404
    ELSE 200

delete_announcement(announcement_id, teacher_username) ==
    LET status == DeleteStatus(announcements_collection, announcement_id, teacher_username)
    IN  /\ req' = Request(announcement_id, teacher_username)
        /\ resp' = Response("delete", status, <<>>, FALSE)
        /\ announcements_collection' =
               IF status = 200
               THEN DeleteOne(announcements_collection, ObjectIdOf(announcement_id))
               ELSE announcements_collection
        /\ UNCHANGED <<next_oid, now, pc, frame>>

\* ---------------------------------------------------------------- update
\* Lines 120-133: credentials, ObjectId(announcement_id), find_one.
UpdateLookupStatus(coll, announcement_id, teacher_username) ==
    IF ~Authenticated(teacher_username) THEN 401
    ELSE IF ~ObjectIdValid(announcement_id) THEN 400
    ELSE IF ~Exists(coll, ObjectIdOf(announcement_id)) THEN 404
    ELSE 200

\* Lines 135-144: the date validation of update_announcement.
UpdateDatesStatus(expiration_date, start_date) ==
    IF ~Parseable(expiration_date) THEN 400
    ELSE IF ~Truthy(start_date) THEN 200
    ELSE IF ~Parseable(start_date[1]) THEN 400
    ELSE IF Instant(start_date[1]) >= Instant(expiration_date) THEN 400
    ELSE 200

\* What the handler answers before it writes: 200 when it goes on to
\* update_one.
UpdateStatus(coll, announcement_id, expiration_date, start_date, teacher_username) ==
    LET lookup == UpdateLookupStatus(coll, announcement_id, teacher_username)
    IN  IF lookup # 200 THEN lookup
        ELSE UpdateDatesStatus(expiration_date, start_date)

\* Mutant: start_date is missing from update_data.
SetUpdateData_NoStart(doc, message, start_date, expiration_date) ==
    [doc EXCEPT !.message = message,
                !.expiration_date = expiration_date]

\* {"$set": update_data} on one document.
SetUpdateData(doc, message, start_date, expiration_date) ==
    [doc EXCEPT !.message = message,
                !.start_date = start_date,
                !.expiration_date = expiration_date]

\* Mutant: the filter is ignored, every document is set.
UpdateOne_NoFilter(coll, obj_id, message, start_date, expiration_date) ==
    [i \in 1..Len(coll) |->
        SetUpdateData(coll[i], message, start_date, expiration_date)]

\* update_one({"_id": obj_id}, {"$set": update_data}): the collection after.
UpdateOne(coll, obj_id, message, start_date, expiration_date) ==
    [i \in 1..Len(coll) |->
        IF coll[i]._id = obj_id
        THEN SetUpdateData(coll[i], message, start_date, expiration_date)
        ELSE coll[i]]

\* result.matched_count of that update_one; result.modified_count is 1 when
\* the collection after differs from the collection before.
MatchedCount(coll, obj_id) == IF Exists(coll, obj_id) THEN 1 ELSE 0

\* Mutant: "or" for "and".
UpdateFailed_Or(modified_count, matched_count) == modified_count = 0 \/ matched_count = 0

\* Line 158: the condition of the 500 answer.
UpdateFailed(modified_count, matched_count) == modified_count = 0 /\ matched_count = 0

\* Lines 161-163: the final find_one and serialize_announcement. When no
\* document has the identifier find_one returns None, serialize_announcement
\* raises on it, and the framework answers 500.
FinalResponse(coll, obj_id) ==
    IF Exists(coll, obj_id)
    THEN Response("update", 200, <<serialize_announcement(FindOne(coll, obj_id))>>, FALSE)
    ELSE Response("update", 500, <<>>, FALSE)

\* The whole handler, no other request running between its store calls.
update_announcement(announcement_id, message, expiration_date, start_date, teacher_username) ==
    LET status == UpdateStatus(announcements_collection, announcement_id,
                               expiration_date, start_date, teacher_username)
        obj_id == ObjectIdOf(announcement_id)
        written == UpdateOne(announcements_collection, obj_id,
                             message, start_date, expiration_date)
        failed == UpdateFailed(
                      IF written # announcements_collection THEN 1 ELSE 0,
                      MatchedCount(announcements_collection, obj_id))
    IN  /\ req' = Request(announcement_id, teacher_username)
        /\ IF status # 200
           THEN /\ resp' = Response("update", status, <<>>, FALSE)
                /\ UNCHANGED announcements_collection
           ELSE IF failed
           THEN /\ resp' = Response("update", 500, <<>>, FALSE)
                /\ UNCHANGED announcements_collection
           ELSE /\ announcements_collection' = written
                /\ resp' = FinalResponse(written, obj_id)
        /\ UNCHANGED <<next_oid, now, pc, frame>>

\* The same handler, one store call at a time. First step: the request
\* arrives and the handler runs through the find_one of the existence check
\* and the date validation that follows it.
update_lookup(w, announcement_id, message, expiration_date, start_date, teacher_username) ==
    LET status == UpdateStatus(announcements_collection, announcement_id,
                               expiration_date, start_date, teacher_username)
    IN  /\ pc[w] = "idle"
        /\ req' = Request(announcement_id, teacher_username)
        /\ IF status = 200
           THEN /\ pc' = [pc EXCEPT ![w] = "validated"]
                /\ frame' = [frame EXCEPT ![w] =
                       [obj_id |-> ObjectIdOf(announcement_id),
                        message |-> message,
                        start_date |-> start_date,
                        expiration_date |-> expiration_date]]
                /\ UNCHANGED resp
           ELSE /\ resp' = Response("update", status, <<>>, FALSE)
                /\ UNCHANGED <<pc, frame>>
        /\ UNCHANGED <<announcements_collection, next_oid, now>>

\* Second step, lines 153-159: update_one, then the check of its counts.
update_write(w) ==
    LET f == frame[w]
        written == UpdateOne(announcements_collection, f.obj_id, f.message,
                             f.start_date, f.expiration_date)
        failed == UpdateFailed(
                      IF written # announcements_collection THEN 1 ELSE 0,
                      MatchedCount(announcements_collection, f.obj_id))
    IN  /\ pc[w] = "validated"
        /\ announcements_collection' = written
        /\ IF failed
           THEN /\ resp' = Response("update", 500, <<>>, FALSE)
                /\ pc' = [pc EXCEPT ![w] = "idle"]
                /\ frame' = [frame EXCEPT ![w] = NoFrame]
           ELSE /\ pc' = [pc EXCEPT ![w] = "updated"]
                /\ UNCHANGED <<frame, resp>>
        /\ UNCHANGED <<next_oid, now, req>>

\* Third step, lines 161-163.
update_return(w) ==
    /\ pc[w] = "updated"
    /\ resp' = FinalResponse(announcements_collection, frame[w].obj_id)
    /\ pc' = [pc EXCEPT ![w] = "idle"]
    /\ frame' = [frame EXCEPT ![w] = NoFrame]
    /\ UNCHANGED <<announcements_collection, next_oid, now, req>>

\* ----------------------------------------------------------------- clock
Tick ==
    /\ now < MaxTime
    /\ now' = now + 1
    /\ UNCHANGED <<announcements_collection, next_oid, pc, frame, req, resp>>

\* -------------------------------------------------------- specifications
\* Requests served one after another.
Next ==
    \/ Tick
    \/ \E active_only \in BOOLEAN : get_announcements(active_only)
    \/ \E m \in Messages, e \in ExpirationDates, s \in StartDates, u \in Usernames :
           create_announcement(m, e, s, u)
    \/ \E a \in IdTexts, m \in Messages, e \in ExpirationDates, s \in StartDates,
          u \in Usernames :
           update_announcement(a, m, e, s, u)
    \/ \E a \in IdTexts, u \in Usernames : delete_announcement(a, u)

Spec == Init /\ [][Next]_vars

\* Requests served by two workers: the store calls of two updates interleave
\* with each other and with creates and deletes.
ConcNext ==
    \/ \E m \in Messages, e \in FewExpirationDates, s \in FewStartDates, u \in Usernames :
           create_announcement(m, e, s, u)
    \/ \E w \in Workers, a \in IdTexts, m \in Messages, e \in FewExpirationDates,
          s \in FewStartDates, u \in Usernames :
           update_lookup(w, a, m, e, s, u)
    \/ \E w \in Workers : update_write(w)
    \/ \E w \in Workers : update_return(w)
    \/ \E a \in IdTexts, u \in Usernames : delete_announcement(a, u)

ConcSpec == Init /\ [][ConcNext]_vars

\* ---------------------------------------------------------------- claims
Stored(coll) == {coll[i] : i \in 1..Len(coll)}
Records(body) == {body[i] : i \in 1..Len(body)}
RecordIds(body) == {body[i].id : i \in 1..Len(body)}

\* The public record of a stored document, field by field.
PublicRecord(doc) ==
    [id |-> <<CharZero + doc._id>>,
     message |-> doc.message,
     start_date |-> doc.start_date,
     expiration_date |-> doc.expiration_date,
     created_by |-> doc.created_by,
     created_at |-> doc.created_at]

\* A step that serves (or, for the stepwise update, advances) a request: the
\* clock stands still.
RequestStep == now' = now

\* The dates of a document are timestamps.
WellDated(doc) ==
    /\ Parseable(doc.expiration_date)
    /\ doc.start_date # None => Parseable(doc.start_date[1])

\* Active at hour t, by the instants the dates denote.
ActiveAt(doc, t) ==
    /\ Instant(doc.expiration_date) >= t
    /\ doc.start_date # None => Instant(doc.start_date[1]) <= t

\* C1: the list operation with active_only=true returns exactly the stored
\* announcements whose expiration_date is at or after the current time and
\* whose start_date is absent, null or at or before the current time; with
\* active_only=false it returns every stored announcement. (Stated for the
\* announcements whose dates are timestamps.)
C1_ListReturnsExactlyActive ==
    [][(resp'.op = "list" /\ RequestStep) =>
        \A doc \in Stored(announcements_collection) :
            WellDated(doc) =>
                (PublicRecord(doc).id \in RecordIds(resp'.body)
                    <=> (resp'.active_only => ActiveAt(doc, now)))]_vars

\* C2: create, update and delete with a teacher_username that has no teacher
\* record answer 401, whatever the other parameters, and leave the
\* announcements collection as it was.
C2_UnknownTeacherUnauthorized ==
    [][(RequestStep
          /\ resp'.op \in {"create", "update", "delete"}
          /\ req'.teacher_username \notin teachers_collection) =>
        /\ resp'.status = 401
        /\ announcements_collection' = announcements_collection]_vars

C2_Witness ==
    /\ resp.op = "update"
    /\ resp.status = 401
    /\ req.teacher_username = "intruder"
    /\ req.announcement_id = Garbage
    /\ Len(announcements_collection) = 2

\* What C3 says create must reject: an expiration_date that is not strictly
\* after the current time, or a start_date that is provided and is not
\* strictly before the expiration_date.
MustReject(expiration_date, start_date, t) ==
    \/ ~Parseable(expiration_date)
    \/ Instant(expiration_date) <= t
    \/ /\ start_date # None
       /\ \/ ~Parseable(start_date[1])
          \/ Instant(start_date[1]) >= Instant(expiration_date)

\* C3: create by an existing teacher answers 400 and inserts nothing whenever
\* expiration_date is not strictly after the current time or a provided
\* start_date is not strictly before expiration_date; otherwise it inserts
\* exactly one announcement with created_by = teacher_username and returns it
\* with its identifier.
C3_CreateRejectsOrInserts ==
    [][(resp'.op = "create" /\ RequestStep
          /\ req'.teacher_username \in teachers_collection) =>
        \A m \in Messages, e \in ExpirationDates, s \in StartDates :
            create_announcement(m, e, s, req'.teacher_username) =>
                IF MustReject(e, s, now)
                THEN /\ resp'.status = 400
                     /\ announcements_collection' = announcements_collection
                ELSE /\ resp'.status = 200
                     /\ Len(announcements_collection') = Len(announcements_collection) + 1
                     /\ SubSeq(announcements_collection', 1, Len(announcements_collection))
                            = announcements_collection
                     /\ LET doc == announcements_collection'[Len(announcements_collection')]
                        IN  /\ doc.created_by = req'.teacher_username
                            /\ Len(resp'.body) = 1
                            /\ resp'.body[1] = PublicRecord(doc)]_vars

\* C4: every stored announcement that has a start_date has it strictly before
\* its expiration_date.
C4_StartBeforeExpiration ==
    \A doc \in Stored(announcements_collection) :
        doc.start_date # None =>
            /\ Parseable(doc.start_date[1])
            /\ Parseable(doc.expiration_date)
            /\ Instant(doc.start_date[1]) < Instant(doc.expiration_date)

\* C5: a successful update changes only message, start_date and
\* expiration_date of its target (identifier, created_by and created_at stay,
\* every other announcement stays, none is added or removed); a failing
\* update changes nothing in the collection.
C5_UpdateChangesOnlyTarget ==
    [][(resp'.op = "update" /\ RequestStep) =>
        IF resp'.status = 200
        THEN /\ Len(announcements_collection') = Len(announcements_collection)
             /\ Len(resp'.body) = 1
             /\ resp'.body[1].id = req'.announcement_id
             /\ \A i \in 1..Len(announcements_collection) :
                    LET old == announcements_collection[i]
                        new == announcements_collection'[i]
                    IN  /\ new._id = old._id
                        /\ new.created_by = old.created_by
                        /\ new.created_at = old.created_at
                        /\ IF <<CharZero + old._id>> = req'.announcement_id
                           THEN resp'.body[1] = PublicRecord(new)
                           ELSE new = old
        ELSE /\ resp'.status \in {401, 400, 404}
             /\ announcements_collection' = announcements_collection]_vars

C5_Witness ==
    /\ resp.op = "update"
    /\ resp.status = 200
    /\ Len(announcements_collection) = 2
    /\ announcements_collection[1].message # announcements_collection[2].message
    /\ req.announcement_id = <<CharZero + 2>>

\* The identifiers of the stored documents.
StoredIds(coll) == {coll[i]._id : i \in 1..Len(coll)}

\* C6: delete by an existing teacher of a well-formed identifier that is not
\* stored answers 404 and changes nothing; a successful delete removes
\* exactly its target; an identifier that was removed is never stored again
\* and a list returns stored identifiers only, so a second delete of it
\* answers 404 and no list returns it.
C6_DeleteRemovesForGood ==
    [][/\ (resp'.op = "delete" /\ RequestStep
             /\ req'.teacher_username \in teachers_collection
             /\ Len(req'.announcement_id) = 1
             /\ req'.announcement_id[1] \in Digits) =>
           LET target == req'.announcement_id[1] - CharZero
           IN  IF target \in StoredIds(announcements_collection)
               THEN /\ resp'.status = 200
                    /\ Stored(announcements_collection') =
                           {doc \in Stored(announcements_collection) : doc._id # target}
                    /\ Len(announcements_collection') = Len(announcements_collection) - 1
               ELSE /\ resp'.status = 404
                    /\ announcements_collection' = announcements_collection
       /\ \A oid \in 1..(next_oid - 1) :
              oid \notin StoredIds(announcements_collection) =>
                  oid \notin StoredIds(announcements_collection')
       /\ (resp'.op = "list" /\ RequestStep) =>
              RecordIds(resp'.body) \subseteq
                  {<<CharZero + oid>> : oid \in StoredIds(announcements_collection)}
      ]_vars

C6_Witness ==
    /\ resp.op = "delete"
    /\ resp.status = 404
    /\ req.announcement_id = <<CharZero + 1>>
    /\ next_oid > 1
    /\ Len(announcements_collection) = 1

\* C7: an announcement that create returned is stored under the identifier
\* create returned, with the message, start_date and expiration_date that
\* were passed to create; it stays stored as it is until an update or a
\* delete of that identifier; and the list operation with active_only=false
\* returns the public record of every stored announcement.
C7_CreateListRoundTrip ==
    [][/\ (resp'.op = "create" /\ resp'.status = 200 /\ RequestStep) =>
           \A m \in Messages, e \in ExpirationDates, s \in StartDates :
               create_announcement(m, e, s, req'.teacher_username) =>
                   \E doc \in Stored(announcements_collection') :
                       /\ <<CharZero + doc._id>> = resp'.body[1].id
                       /\ doc.message = m
                       /\ doc.start_date = s
                       /\ doc.expiration_date = e
       /\ \A doc \in Stored(announcements_collection) :
              \/ doc \in Stored(announcements_collection')
              \/ /\ RequestStep
                 /\ resp'.op \in {"update", "delete"}
                 /\ req'.announcement_id = <<CharZero + doc._id>>
       /\ (resp'.op = "list" /\ ~resp'.active_only /\ RequestStep) =>
              Records(resp'.body) =
                  {PublicRecord(doc) : doc \in Stored(announcements_collection)}
      ]_vars

C7_Witness ==
    /\ resp.op = "list"
    /\ ~resp.active_only
    /\ Len(resp.body) = 2
    /\ \E r \in Records(resp.body) : r.start_date = Some(Zoned(2, CharPlus, 1))
    /\ \E r \in Records(resp.body) : r.start_date = None

\* C8: the list operation with active_only=true never returns an announcement
\* whose expiration_date is at or before the current time.
C8_NoExpiredListed ==
    [][(resp'.op = "list" /\ resp'.active_only /\ RequestStep) =>
        \A r \in Records(resp'.body) :
            Parseable(r.expiration_date) => Instant(r.expiration_date) > now]_vars

\* The (message, start_date, expiration_date) of a document or of a frame.
Triple(x) == <<x.message, x.start_date, x.expiration_date>>

\* A worker's update leaves the handler in this step.
Finishes(w) == pc[w] # "idle" /\ pc'[w] = "idle"

C10_LastWriteWins ==
    /\ [](\A v, w \in Workers :
            (/\ v # w
             /\ pc[v] = "updated"
             /\ pc[w] = "updated"
             /\ frame[v].obj_id = frame[w].obj_id) =>
                \A doc \in Stored(announcements_collection) :
                    doc._id = frame[v].obj_id =>
                        Triple(doc) \in {Triple(frame[v]), Triple(frame[w])})
    /\ [][\A w \in Workers :
            (pc[w] = "validated" /\ pc'[w] = "updated") =>
                /\ Len(announcements_collection') = Len(announcements_collection)
                /\ \A i \in 1..Len(announcements_collection) :
                       IF announcements_collection[i]._id = frame[w].obj_id
                       THEN Triple(announcements_collection'[i]) = Triple(frame[w])
                       ELSE announcements_collection'[i] = announcements_collection[i]
         ]_vars

C10_Witness ==
    /\ pc["w1"] = "updated"
    /\ pc["w2"] = "updated"
    /\ frame["w1"].obj_id = frame["w2"].obj_id
    /\ frame["w1"].message # frame["w2"].message
    /\ frame["w1"].start_date # frame["w2"].start_date
    /\ Len(announcements_collection) = 2

====
